---- MODULE Spec2Model ----
(***************************************************************************)
(* Model of color_converter.py: the four ColorConverter conversions and    *)
(* the slider / text-field / colour-picker wiring of ColorPickerApp.       *)
(*                                                                         *)
(* Python floats are modelled as exact rationals (numerator, denominator); *)
(* round() is Python 3's round-half-to-even on the exact value.  Where the *)
(* exact value is a tie, the rounding error of the float computation       *)
(* decides which neighbour the source returns (cmyk_to_rgb(0, 0, 70, 0)    *)
(* yields B = 77 for the exact 76.5).  Channels, Hues, Percents,           *)
(* Saturations and, for MaxEvents = 2, the user inputs are sets on which   *)
(* the source returns exactly what the operators here return.              *)
(***************************************************************************)
EXTENDS Integers, Sequences, FiniteSets, TLC

\* ------------------------------------------------------------------------
\* Arithmetic helpers
\* ------------------------------------------------------------------------

Abs(x) == IF x < 0 THEN 0 - x ELSE x

Max2(a, b) == IF a >= b THEN a ELSE b

Min2(a, b) == IF a <= b THEN a ELSE b

Max3(a, b, c) == Max2(a, Max2(b, c))

Min3(a, b, c) == Min2(a, Min2(b, c))

\* Python round(n/d) for n >= 0, d > 0: nearest integer, ties to even.
Round(n, d) ==
    LET q   == n \div d
        rem == n % d
    IN  IF 2 * rem < d THEN q
        ELSE IF 2 * rem > d THEN q + 1
        ELSE IF q % 2 = 0 THEN q ELSE q + 1

\* max(lo, min(hi, x))
Clamp(lo, hi, x) == Max2(lo, Min2(hi, x))

\* ------------------------------------------------------------------------
\* ColorConverter
\* ------------------------------------------------------------------------

\* Channels are kept as numerators over 255 (r_norm = r/255).
rgb_to_cmyk(r, g, b) ==
    IF r = 0 /\ g = 0 /\ b = 0 THEN <<0, 0, 0, 100>>
    ELSE
      LET k         == 255 - Max3(r, g, b)          \* k = 1 - max(...), over 255
          one_min_k == 255 - k                      \* 1 - k, over 255
          c == IF one_min_k # 0 THEN Round(100 * (255 - r - k), one_min_k) ELSE 0
          m == IF one_min_k # 0 THEN Round(100 * (255 - g - k), one_min_k) ELSE 0
          y == IF one_min_k # 0 THEN Round(100 * (255 - b - k), one_min_k) ELSE 0
      IN  <<c, m, y, Round(100 * k, 255)>>

\* Variant of cmyk_to_rgb that drops the (1 - k_norm) factor.
cmyk_to_rgb_no_key(c, m, y, k) ==
    <<Clamp(0, 255, Round(255 * (100 - c), 100)),
      Clamp(0, 255, Round(255 * (100 - m), 100)),
      Clamp(0, 255, Round(255 * (100 - y), 100))>>

\* c_norm = c/100 ...; 255 * (1 - c_norm) * (1 - k_norm) is over 10000.
cmyk_to_rgb(c, m, y, k) ==
    LET r == 255 * (100 - c) * (100 - k)
        g == 255 * (100 - m) * (100 - k)
        b == 255 * (100 - y) * (100 - k)
    IN  <<Clamp(0, 255, Round(r, 10000)),
          Clamp(0, 255, Round(g, 10000)),
          Clamp(0, 255, Round(b, 10000))>>

\* What Python raises on a float division by zero.
ZeroDivisionError == <<"ZeroDivisionError">>

\* cmax, cmin, delta are over 255; l = (cmax + cmin) / 510.
\* The returned tuple is in the order of the return statement:
\* (round(h % 360), round(s * 100), round(l * 100)).
rgb_to_hls(r, g, b) ==
    LET cmax  == Max3(r, g, b)
        cmin  == Min3(r, g, b)
        delta == cmax - cmin
        l_is_half == (cmax + cmin = 255)                 \* l == 0.5
        s_den == 255 - Abs(cmax + cmin - 255)            \* 1 - abs(2*l - 1), over 255
        \* h, over delta
        h == IF cmax = r THEN 60 * ((g - b) % (6 * delta))
             ELSE IF cmax = g THEN 60 * ((b - r) + 2 * delta)
             ELSE 60 * ((r - g) + 4 * delta)
    IN  IF delta = 0 THEN <<0, 0, Round(100 * (cmax + cmin), 510)>>
        ELSE IF ~l_is_half /\ s_den = 0 THEN ZeroDivisionError
        ELSE <<Round(h % (360 * delta), delta),
               IF l_is_half THEN 100 ELSE Round(100 * delta, s_den),
               Round(100 * (cmax + cmin), 510)>>

\* hue_to_rgb(p, q, t) with p, q over 10000 and t over 360; result over 600000.
hue_to_rgb(p, q, t) ==
    LET t1 == IF t < 0 THEN t + 360 ELSE t
        t2 == IF t1 > 360 THEN t1 - 360 ELSE t1
    IN  IF t2 < 60 THEN 60 * p + (q - p) * t2
        ELSE IF t2 < 180 THEN 60 * q
        ELSE IF t2 < 240 THEN 60 * p + (q - p) * (240 - t2)
        ELSE 60 * p

\* Variant of hls_to_rgb whose achromatic branch takes the grey level from
\* the saturation argument instead of the lightness argument.
hls_to_rgb_grey_from_s(h, l, s) ==
    IF s = 0
    THEN LET v == Clamp(0, 255, Round(255 * s, 100)) IN <<v, v, v>>
    ELSE
      LET q == IF l < 50 THEN l * (100 + s) ELSE 100 * l + 100 * s - l * s
          p == 200 * l - q
      IN  <<Clamp(0, 255, Round(255 * hue_to_rgb(p, q, h + 120), 600000)),
            Clamp(0, 255, Round(255 * hue_to_rgb(p, q, h), 600000)),
            Clamp(0, 255, Round(255 * hue_to_rgb(p, q, h - 120), 600000))>>

\* h_norm = h/360, s_norm = s/100, l_norm = l/100; q and p are over 10000.
hls_to_rgb(h, l, s) ==
    IF s = 0
    THEN LET v == Clamp(0, 255, Round(255 * l, 100)) IN <<v, v, v>>
    ELSE
      LET q == IF l < 50 THEN l * (100 + s) ELSE 100 * l + 100 * s - l * s
          p == 200 * l - q
      IN  <<Clamp(0, 255, Round(255 * hue_to_rgb(p, q, h + 120), 600000)),
            Clamp(0, 255, Round(255 * hue_to_rgb(p, q, h), 600000)),
            Clamp(0, 255, Round(255 * hue_to_rgb(p, q, h - 120), 600000))>>

\* ------------------------------------------------------------------------
\* Text of a QLineEdit: a sequence of one-character strings
\* ------------------------------------------------------------------------

Digits == <<"0", "1", "2", "3", "4", "5", "6", "7", "8", "9">>

IsDigit(ch) == \E d \in 1..10 : Digits[d] = ch

DigitVal(ch) == (CHOOSE d \in 1..10 : Digits[d] = ch) - 1

RECURSIVE NatToStr(_)
NatToStr(n) ==
    IF n < 10 THEN <<Digits[n + 1]>>
    ELSE NatToStr(n \div 10) \o <<Digits[(n % 10) + 1]>>

\* Python str(int)
str(n) == IF n < 0 THEN <<"-">> \o NatToStr(0 - n) ELSE NatToStr(n)

RECURSIVE Strip(_)
\* Python int() ignores surrounding whitespace.
Strip(t) ==
    IF t = <<>> THEN t
    ELSE IF Head(t) = " " THEN Strip(Tail(t))
    ELSE IF t[Len(t)] = " " THEN Strip(SubSeq(t, 1, Len(t) - 1))
    ELSE t

\* Digits with single underscores between them, as int() accepts.
IsDigitString(t) ==
    /\ t # <<>>
    /\ IsDigit(t[1])
    /\ IsDigit(t[Len(t)])
    /\ \A j \in 1..Len(t) : IsDigit(t[j]) \/ t[j] = "_"
    /\ \A j \in 1..(Len(t) - 1) : ~(t[j] = "_" /\ t[j + 1] = "_")

RECURSIVE DigitsVal(_)
DigitsVal(t) ==
    IF t = <<>> THEN 0
    ELSE IF t[Len(t)] = "_" THEN DigitsVal(SubSeq(t, 1, Len(t) - 1))
    ELSE 10 * DigitsVal(SubSeq(t, 1, Len(t) - 1)) + DigitVal(t[Len(t)])

\* Python int(text): [ok |-> TRUE, val |-> n], or ok = FALSE for ValueError.
int(t) ==
    LET u      == Strip(t)
        signed == u # <<>> /\ u[1] \in {"+", "-"}
        body   == IF signed THEN Tail(u) ELSE u
    IN  IF IsDigitString(body)
        THEN [ok |-> TRUE,
              val |-> IF signed /\ u[1] = "-" THEN 0 - DigitsVal(body)
                      ELSE DigitsVal(body)]
        ELSE [ok |-> FALSE, val |-> 0]

\* ------------------------------------------------------------------------
\* Widgets
\* ------------------------------------------------------------------------

Groups == {"rgb", "cmyk", "hls"}

\* (min_val, max_val, default_val) of every slider.
rgb_ranges == <<<<0, 255, 128>>, <<0, 255, 128>>, <<0, 255, 128>>>>

cmyk_ranges == <<<<0, 100, 0>>, <<0, 100, 0>>, <<0, 100, 0>>, <<0, 100, 0>>>>

hls_ranges == <<<<0, 360, 0>>, <<0, 100, 50>>, <<0, 100, 0>>>>

ranges == [g \in Groups |->
             IF g = "rgb" THEN rgb_ranges
             ELSE IF g = "cmyk" THEN cmyk_ranges ELSE hls_ranges]

min_val(g, i) == ranges[g][i][1]

max_val(g, i) == ranges[g][i][2]

default_val(g, i) == ranges[g][i][3]

\* QSlider.setValue bounds the value to [minimum, maximum].
QSlider_setValue(g, i, v) == Clamp(min_val(g, i), max_val(g, i), v)

\* The numbers update_color_display formats into the info label.
update_color_display(st) ==
    LET rgb == st.current_rgb
    IN  [st EXCEPT !.color_info =
            [rgb  |-> rgb,
             cmyk |-> rgb_to_cmyk(rgb[1], rgb[2], rgb[3]),
             hls  |-> rgb_to_hls(rgb[1], rgb[2], rgb[3])]]

\* Variant of set_value that leaves the slider's signals unblocked.
set_value_unblocked(st, g, i, v, groupBlocked) ==
    LET new     == QSlider_setValue(g, i, v)
        emitted == new # st.value[g][i]
    IN  [st EXCEPT !.value[g][i] = new,
                   !.text[g][i]  = str(v),
                   !.notified    = IF emitted /\ ~groupBlocked
                                   THEN @ \cup {g} ELSE @]

\* ColorSliderGroup.set_value: slider and input signals are blocked around
\* the two setters, so QSlider.valueChanged is not delivered.  groupBlocked
\* is the caller's blockSignals(True) on the owning ColorModelGroup.
\* st.notified collects the groups whose handler a programmatic update
\* would reach.
set_value(st, g, i, v, groupBlocked) ==
    LET sliderBlocked == TRUE
        new     == QSlider_setValue(g, i, v)
        emitted == ~sliderBlocked /\ new # st.value[g][i]
    IN  [st EXCEPT !.value[g][i] = new,
                   !.text[g][i]  = str(v),
                   !.notified    = IF emitted /\ ~groupBlocked
                                   THEN @ \cup {g} ELSE @]

RECURSIVE set_values_from(_, _, _, _, _)
set_values_from(st, g, values, i, groupBlocked) ==
    IF i > Min2(Len(values), Len(ranges[g])) THEN st
    ELSE set_values_from(set_value(st, g, i, values[i], groupBlocked),
                         g, values, i + 1, groupBlocked)

\* ColorModelGroup.set_values: zip(self.sliders, values)
set_values(st, g, values, groupBlocked) ==
    set_values_from(st, g, values, 1, groupBlocked)

\* ------------------------------------------------------------------------
\* ColorPickerApp handlers
\* ------------------------------------------------------------------------

on_rgb_changed(st, values) ==
    LET r == Clamp(0, 255, values[1])
        g == Clamp(0, 255, values[2])
        b == Clamp(0, 255, values[3])
        cmyk == rgb_to_cmyk(r, g, b)
        hls  == rgb_to_hls(r, g, b)
        st1 == [st EXCEPT !.current_rgb = <<r, g, b>>,
                          !.calls = Append(@, "on_rgb_changed")]
        st2 == set_values(st1, "cmyk", cmyk, TRUE)
        st3 == set_values(st2, "hls", hls, TRUE)
    IN  update_color_display(st3)

\* Variant of on_cmyk_changed that does not push the new RGB to the sliders.
on_cmyk_changed_no_rgb_push(st, values) ==
    LET c == Clamp(0, 100, values[1])
        m == Clamp(0, 100, values[2])
        y == Clamp(0, 100, values[3])
        k == Clamp(0, 100, values[4])
        rgb == cmyk_to_rgb(c, m, y, k)
        hls == rgb_to_hls(rgb[1], rgb[2], rgb[3])
        st1 == [st EXCEPT !.current_rgb = rgb,
                          !.calls = Append(@, "on_cmyk_changed")]
        st3 == set_values(st1, "hls", hls, TRUE)
    IN  update_color_display(st3)

on_cmyk_changed(st, values) ==
    LET c == Clamp(0, 100, values[1])
        m == Clamp(0, 100, values[2])
        y == Clamp(0, 100, values[3])
        k == Clamp(0, 100, values[4])
        rgb == cmyk_to_rgb(c, m, y, k)
        hls == rgb_to_hls(rgb[1], rgb[2], rgb[3])
        st1 == [st EXCEPT !.current_rgb = rgb,
                          !.calls = Append(@, "on_cmyk_changed")]
        st2 == set_values(st1, "rgb", rgb, TRUE)
        st3 == set_values(st2, "hls", hls, TRUE)
    IN  update_color_display(st3)

on_hls_changed(st, values) ==
    LET h == Clamp(0, 360, values[1])
        l == Clamp(0, 100, values[2])
        s == Clamp(0, 100, values[3])
        rgb  == hls_to_rgb(h, l, s)
        cmyk == rgb_to_cmyk(rgb[1], rgb[2], rgb[3])
        st1 == [st EXCEPT !.current_rgb = rgb,
                          !.calls = Append(@, "on_hls_changed")]
        st2 == set_values(st1, "rgb", rgb, TRUE)
        st3 == set_values(st2, "cmyk", cmyk, TRUE)
    IN  update_color_display(st3)

\* ColorModelGroup.on_slider_changed: index and value are ignored, the
\* values are read from the sliders; valuesChanged is connected to the
\* handler of the group.
ColorModelGroup_on_slider_changed(st, g) ==
    LET values == st.value[g]
    IN  IF g = "rgb" THEN on_rgb_changed(st, values)
        ELSE IF g = "cmyk" THEN on_cmyk_changed(st, values)
        ELSE on_hls_changed(st, values)

\* ColorSliderGroup.on_slider_changed
ColorSliderGroup_on_slider_changed(st, g, i, v) ==
    ColorModelGroup_on_slider_changed([st EXCEPT !.text[g][i] = str(v)], g)

\* Variant of on_input_changed whose ValueError branch also emits
\* valueChanged after restoring the text.
on_input_changed_emit_on_error(st, g, i) ==
    LET parsed  == int(st.text[g][i])
        v       == parsed.val
        clamped == Max2(min_val(g, i), Min2(max_val(g, i), v))
    IN  IF ~parsed.ok
        THEN ColorModelGroup_on_slider_changed(
                 [st EXCEPT !.text[g][i] = str(st.value[g][i])], g)
        ELSE IF v # clamped
        THEN LET st1 == [st EXCEPT !.value[g][i] = QSlider_setValue(g, i, clamped)]
                 st2 == IF st1.value[g][i] # st.value[g][i]
                        THEN ColorSliderGroup_on_slider_changed(st1, g, i, st1.value[g][i])
                        ELSE st1
                 st3 == [st2 EXCEPT !.text[g][i] = str(clamped)]
             IN  ColorModelGroup_on_slider_changed(st3, g)
        ELSE ColorModelGroup_on_slider_changed(st, g)

\* ColorSliderGroup.on_input_changed (editingFinished); st.text[g][i] is the
\* text the user typed.
on_input_changed(st, g, i) ==
    LET parsed  == int(st.text[g][i])
        v       == parsed.val
        clamped == Max2(min_val(g, i), Min2(max_val(g, i), v))
    IN  IF ~parsed.ok
        THEN [st EXCEPT !.text[g][i] = str(st.value[g][i])]
        ELSE IF v # clamped
        THEN \* slider.setValue(clamped) emits valueChanged when the value
             \* changes, which runs on_slider_changed; then setText, emit.
             LET st1 == [st EXCEPT !.value[g][i] = QSlider_setValue(g, i, clamped)]
                 st2 == IF st1.value[g][i] # st.value[g][i]
                        THEN ColorSliderGroup_on_slider_changed(st1, g, i, st1.value[g][i])
                        ELSE st1
                 st3 == [st2 EXCEPT !.text[g][i] = str(clamped)]
             IN  ColorModelGroup_on_slider_changed(st3, g)
        ELSE ColorModelGroup_on_slider_changed(st, g)

\* ColorPickerApp.pick_color; color is what QColorDialog.getColor returned.
pick_color(st, color) ==
    IF color.valid
    THEN on_rgb_changed(set_values(st, "rgb", color.rgb, FALSE), color.rgb)
    ELSE st

\* ------------------------------------------------------------------------
\* Bounds and inputs
\* ------------------------------------------------------------------------

\* Number of user events in one run of the application.
MaxEvents == 2

\* Channel values handed to the conversions.
Channels == {0, 1, 2, 64, 65, 127, 128, 254, 255}

Hues == {0, 1, 59, 60, 120, 180, 240, 300, 359, 360}

Percents == 0..100

Saturations == {0, 1, 33, 99}

\* Positions the user drags a slider to.
SliderInputs(g, i) ==
    IF g = "rgb" THEN {0, 1, 255}
    ELSE IF g = "hls" /\ i = 1 THEN {120, 360}
    ELSE {25, 100}

\* Texts the user types into a field.
UserTexts ==
    { <<"7">>, <<" ", "4", "2">>, <<"9", "9", "9">>, <<"-", "5">>,
      <<"1", ".", "5">>, <<>> }

\* Colours the user selects in the QColorDialog.
PickColors == { <<255, 0, 1>>, <<0, 64, 65>>, <<119, 210, 140>> }

\* ------------------------------------------------------------------------
\* State
\* ------------------------------------------------------------------------

VARIABLES
    current_rgb,   \* ColorPickerApp.current_rgb
    value,         \* value[g][i]: slider.value() of slider i of group g
    text,          \* text[g][i]: input.text() of slider i of group g
    color_info,    \* numbers shown by the info label
    calls,         \* handlers run while processing the latest user event
    notified,      \* groups whose handler a programmatic update reached
    lastEvent,     \* the latest user event
    source,        \* group the latest conversion started from
    nEvents,       \* number of user events so far
    fn,            \* conversion called directly ("none" before the call)
    arg,           \* its arguments
    res,           \* its result
    back           \* result of the inverse conversion applied to res

vars == <<current_rgb, value, text, color_info, calls, notified, lastEvent,
          source, nEvents, fn, arg, res, back>>

guiVars == <<current_rgb, value, text, color_info, calls, notified,
             lastEvent, source, nEvents>>

convVars == <<fn, arg, res, back>>

\* The widgets as one record, for the handler operators.
Widgets ==
    [current_rgb |-> current_rgb, value |-> value, text |-> text,
     color_info |-> color_info, calls |-> <<>>, notified |-> {}]

Event(kind, g, i, t) == [kind |-> kind, group |-> g, index |-> i, text |-> t]

\* State after ColorPickerApp.__init__: current_rgb, the sliders and fields
\* at their defaults, then update_color_display().
Init ==
    /\ current_rgb = <<128, 128, 128>>
    /\ value = [g \in Groups |-> [i \in 1..Len(ranges[g]) |-> default_val(g, i)]]
    /\ text = [g \in Groups |-> [i \in 1..Len(ranges[g]) |-> str(default_val(g, i))]]
    /\ color_info = [rgb  |-> <<128, 128, 128>>,
                     cmyk |-> rgb_to_cmyk(128, 128, 128),
                     hls  |-> rgb_to_hls(128, 128, 128)]
    /\ calls = <<>>
    /\ notified = {}
    /\ lastEvent = Event("init", "none", 0, <<>>)
    /\ source = "none"
    /\ nEvents = 0
    /\ fn = "none"
    /\ arg = <<>>
    /\ res = <<>>
    /\ back = <<>>

Commit(st) ==
    /\ current_rgb' = st.current_rgb
    /\ value' = st.value
    /\ text' = st.text
    /\ color_info' = st.color_info
    /\ calls' = st.calls
    /\ notified' = st.notified

\* ------------------------------------------------------------------------
\* User events
\* ------------------------------------------------------------------------

\* The user drags slider i of group g to v: QSlider.valueChanged.
UserMovesSlider ==
    /\ nEvents < MaxEvents
    /\ \E g \in Groups : \E i \in 1..Len(ranges[g]) : \E v \in SliderInputs(g, i) :
         /\ v # value[g][i]
         /\ Commit(ColorSliderGroup_on_slider_changed(
                      [Widgets EXCEPT !.value[g][i] = v], g, i, v))
         /\ lastEvent' = Event("move", g, i, str(v))
         /\ source' = g
    /\ nEvents' = nEvents + 1
    /\ UNCHANGED convVars

\* The user types t into field i of group g and leaves it: editingFinished.
UserEditsText ==
    /\ nEvents < MaxEvents
    /\ \E g \in Groups : \E i \in 1..Len(ranges[g]) : \E t \in UserTexts :
         /\ Commit(on_input_changed([Widgets EXCEPT !.text[g][i] = t], g, i))
         /\ lastEvent' = Event("edit", g, i, t)
         /\ source' = IF int(t).ok THEN g ELSE source
    /\ nEvents' = nEvents + 1
    /\ UNCHANGED convVars

\* The user presses "Pick Color" and accepts a colour.
UserPicksColor ==
    /\ nEvents < MaxEvents
    /\ \E c \in PickColors :
         /\ Commit(pick_color(Widgets, [valid |-> TRUE, rgb |-> c]))
         /\ lastEvent' = Event("pick", "rgb", 0, <<>>)
         /\ source' = "rgb"
    /\ nEvents' = nEvents + 1
    /\ UNCHANGED convVars

\* The user presses "Pick Color" and cancels the dialog.
UserCancelsPick ==
    /\ nEvents < MaxEvents
    /\ Commit(pick_color(Widgets, [valid |-> FALSE, rgb |-> <<0, 0, 0>>]))
    /\ lastEvent' = Event("cancel", "none", 0, <<>>)
    /\ nEvents' = nEvents + 1
    /\ UNCHANGED <<source, fn, arg, res, back>>

Next == UserMovesSlider \/ UserEditsText \/ UserPicksColor \/ UserCancelsPick

Spec == Init /\ [][Next]_vars

\* ------------------------------------------------------------------------
\* Direct calls of the conversions
\* ------------------------------------------------------------------------

CallRgbToCmyk ==
    /\ fn = "none"
    /\ \E r \in Channels, g \in Channels, b \in Channels :
         /\ arg' = <<r, g, b>>
         /\ res' = rgb_to_cmyk(r, g, b)
    /\ fn' = "rgb_to_cmyk"
    /\ UNCHANGED <<back, guiVars>>

\* cmyk_to_rgb(*rgb_to_cmyk(r, g, b))
CallCmykToRgbOnResult ==
    /\ fn = "rgb_to_cmyk"
    /\ back = <<>>
    /\ back' = cmyk_to_rgb(res[1], res[2], res[3], res[4])
    /\ UNCHANGED <<fn, arg, res, guiVars>>

CallRgbToHls ==
    /\ fn = "none"
    /\ \E r \in Channels, g \in Channels, b \in Channels :
         /\ arg' = <<r, g, b>>
         /\ res' = rgb_to_hls(r, g, b)
    /\ fn' = "rgb_to_hls"
    /\ UNCHANGED <<back, guiVars>>

\* hls_to_rgb(*rgb_to_hls(r, g, b))
CallHlsToRgbOnResult ==
    /\ fn = "rgb_to_hls"
    /\ back = <<>>
    /\ back' = hls_to_rgb(res[1], res[2], res[3])
    /\ UNCHANGED <<fn, arg, res, guiVars>>

CallHlsToRgb ==
    /\ fn = "none"
    /\ \E h \in Hues, l \in Percents, s \in Saturations :
         /\ arg' = <<h, l, s>>
         /\ res' = hls_to_rgb(h, l, s)
    /\ fn' = "hls_to_rgb"
    /\ UNCHANGED <<back, guiVars>>

ConvNext ==
    \/ CallRgbToCmyk
    \/ CallCmykToRgbOnResult
    \/ CallRgbToHls
    \/ CallHlsToRgbOnResult
    \/ CallHlsToRgb

ConvSpec == Init /\ [][ConvNext]_vars

\* ------------------------------------------------------------------------
\* Properties
\* ------------------------------------------------------------------------

\* C1 (as stated): after rgb_to_cmyk and cmyk_to_rgb on its result, every
\* channel is within 1 of the original channel.
C1_CmykRoundTripWithin1 ==
    (fn = "rgb_to_cmyk" /\ back # <<>>) =>
        \A j \in 1..3 : Abs(back[j] - arg[j]) <= 1

\* C1 (amended): after rgb_to_cmyk and cmyk_to_rgb on its result, every
\* channel is within 2 of the original channel.
C1_CmykRoundTripWithin2 ==
    (fn = "rgb_to_cmyk" /\ back # <<>>) =>
        \A j \in 1..3 : Abs(back[j] - arg[j]) <= 2

C1_Witness ==
    /\ fn = "rgb_to_cmyk"
    /\ back # <<>>
    /\ \E j \in 1..3 : Abs(back[j] - arg[j]) = 2

\* C2: passing the result of rgb_to_hls, in the order returned, to
\* hls_to_rgb gives back every channel within 1 of the original channel.
C2_HlsRoundTripWithin1 ==
    (fn = "rgb_to_hls" /\ back # <<>>) =>
        \A j \in 1..3 : Abs(back[j] - arg[j]) <= 1

\* C3: rgb_to_hls raises no ZeroDivisionError, its hue is in 0..359 and its
\* other two results are in 0..100.
C3_HlsResultInRange ==
    fn = "rgb_to_hls" =>
        /\ res # ZeroDivisionError
        /\ res[1] >= 0 /\ res[1] < 360
        /\ res[2] \in 0..100
        /\ res[3] \in 0..100

\* C4: the second value rgb_to_hls returns is the lightness
\* round(100 * (cmax + cmin) / 2) and the third is the saturation.
C4_HlsResultOrder ==
    fn = "rgb_to_hls" =>
        LET cmax == Max3(arg[1], arg[2], arg[3])
            cmin == Min3(arg[1], arg[2], arg[3])
            sat  == IF cmax = cmin THEN 0
                    ELSE IF cmax + cmin = 255 THEN 100
                    ELSE Round(100 * (cmax - cmin), 255 - Abs(cmax + cmin - 255))
        IN  /\ res[2] = Round(100 * (cmax + cmin), 510)
            /\ res[3] = sat

\* C5: after a text edit with a parseable integer v, the edited slider's
\* value and text are v clamped to the slider's range, current_rgb is the
\* conversion of the edited group's values with the clamped v in place, and
\* the other groups show what is derived from current_rgb.
C5_EditAppliesClampedValue ==
    (lastEvent.kind = "edit" /\ int(lastEvent.text).ok) =>
        LET g    == lastEvent.group
            i    == lastEvent.index
            v    == Clamp(min_val(g, i), max_val(g, i), int(lastEvent.text).val)
            rgb  == current_rgb
        IN  /\ value[g][i] = v
            /\ text[g][i] = str(v)
            /\ g = "rgb"  => rgb = value["rgb"]
            /\ g = "cmyk" => rgb = cmyk_to_rgb(value[g][1], value[g][2],
                                               value[g][3], value[g][4])
            /\ g = "hls"  => rgb = hls_to_rgb(value[g][1], value[g][2], value[g][3])
            /\ g # "rgb"  => value["rgb"] = rgb
            /\ g # "cmyk" => value["cmyk"] = rgb_to_cmyk(rgb[1], rgb[2], rgb[3])
            /\ g # "hls"  => value["hls"] = rgb_to_hls(rgb[1], rgb[2], rgb[3])

\* C6: at start-up and after every user event, the CMYK group and the HLS
\* group show the conversion of current_rgb unless the group is the one the
\* latest conversion started from.
C6_DerivedGroupsShowConversion ==
    /\ source # "cmyk" =>
         value["cmyk"] = rgb_to_cmyk(current_rgb[1], current_rgb[2], current_rgb[3])
    /\ source # "hls" =>
         value["hls"] = rgb_to_hls(current_rgb[1], current_rgb[2], current_rgb[3])

\* C7: a programmatic update of a slider group never reaches a handler, and
\* one user event runs at most two handler invocations, all of them the
\* handler of the group the user acted on.
C7_NoHandlerFromProgrammaticUpdate ==
    /\ notified = {}
    /\ Len(calls) <= 2
    /\ \A j \in 1..Len(calls) :
         calls[j] = (IF lastEvent.group = "rgb" THEN "on_rgb_changed"
                     ELSE IF lastEvent.group = "cmyk" THEN "on_cmyk_changed"
                     ELSE "on_hls_changed")

C7_Witness ==
    /\ lastEvent.kind = "pick"
    /\ calls = <<"on_rgb_changed">>
    /\ current_rgb = <<255, 0, 1>>
    /\ value["rgb"] = <<255, 0, 1>>
    /\ value["cmyk"] = <<0, 100, 100, 0>>

\* C8: a text edit that does not parse as an integer puts the slider's
\* value back into the field, runs no handler, and leaves current_rgb, the
\* info label and every slider value and every other field unchanged.
C8_UnparseableEditReverts ==
    [][ (lastEvent'.kind = "edit" /\ ~int(lastEvent'.text).ok) =>
          LET g == lastEvent'.group
              i == lastEvent'.index
          IN  /\ text' = [text EXCEPT ![g][i] = str(value[g][i])]
              /\ calls' = <<>>
              /\ notified' = {}
              /\ UNCHANGED <<current_rgb, value, color_info>> ]_vars

C8_Witness ==
    /\ lastEvent.kind = "edit"
    /\ lastEvent.text = <<"1", ".", "5">>
    /\ ~int(lastEvent.text).ok
    /\ text[lastEvent.group][lastEvent.index]
         = str(value[lastEvent.group][lastEvent.index])
    /\ calls = <<>>
    /\ nEvents = 2
    /\ current_rgb # <<128, 128, 128>>

\* C9: hls_to_rgb(h, l, 0) returns three equal channels round(l/100 * 255),
\* whatever h is.
C9_ZeroSaturationIsGrey ==
    (fn = "hls_to_rgb" /\ arg[3] = 0) =>
        LET v == Round(255 * arg[2], 100) IN res = <<v, v, v>>

C9_Witness ==
    /\ fn = "hls_to_rgb"
    /\ arg = <<360, 30, 0>>
    /\ res = <<76, 76, 76>>

\* C10: after start-up and after every user event, current_rgb is the
\* triple of values of the three RGB sliders and every channel is in 0..255.
C10_CurrentRgbIsRgbSliders ==
    /\ current_rgb = value["rgb"]
    /\ \A j \in 1..3 : current_rgb[j] \in 0..255

C10_Witness ==
    /\ lastEvent.kind = "move"
    /\ lastEvent.group = "cmyk"
    /\ calls = <<"on_cmyk_changed">>
    /\ current_rgb = value["rgb"]
    /\ current_rgb # <<128, 128, 128>>

====
